---- MODULE Spec2Model ----
(***************************************************************************)
(* LeetGraph recommendation / scoring engine (src-tauri/src/pedagogy.rs    *)
(* over src-tauri/src/repository.rs).                                      *)
(*                                                                         *)
(* Number representation (the code uses f64; the model uses exact decimal  *)
(* arithmetic):                                                            *)
(*   ease factor      : integer hundredths            (2.5  -> 250)        *)
(*   interval_days    : reduced fraction <<num, den>> (4.0  -> <<4, 1>>)   *)
(*   mastery          : integer units of 10^-5        (0.7  -> 70000)      *)
(*   time_minutes     : whole minutes                                      *)
(*   multipliers      : integer tenths                (0.7  -> 7)          *)
(*   timestamps       : seconds                                            *)
(***************************************************************************)
EXTENDS Integers, Sequences, FiniteSets, TLC

\* ------------------------------------------------------------------------
\* constants.rs
\* ------------------------------------------------------------------------
DAY_SECONDS == 86400
EXPECTED_TIME_EASY == 10
EXPECTED_TIME_MEDIUM == 25
EXPECTED_TIME_HARD == 45

ALPHA == 15
INTERVAL_MIN == 1
INTERVAL_MAX == 180

EASE_FACTOR_MIN == 130
EASE_FACTOR_MAX == 500
EASE_FACTOR_DEFAULT == 250

EASE_FACTOR_DECREMENT_FAIL == 20
EASE_FACTOR_DECREMENT_STRUGGLE == 15
EASE_FACTOR_INCREMENT_CLEAN == 15
EASE_FACTOR_INCREMENT_SPEED == 15
EASE_FACTOR_NEUTRAL_GRIT == 5

INTERVAL_NEW_GRIT == 2
INTERVAL_NEW_CLEAN == 4
INTERVAL_MULTIPLIER_STRUGGLE == 7
INTERVAL_MULTIPLIER_SPEED == 12

MASTERY_UNLOCK_THRESHOLD == 70000
MASTERY_CONSOLIDATION_THRESHOLD == 90000
ATTEMPTS_CONSOLIDATION_THRESHOLD == 2

DIFFICULTY_MULTIPLIER_EASY == 8
DIFFICULTY_MULTIPLIER_MEDIUM == 12
DIFFICULTY_MULTIPLIER_HARD == 15

PERFORMANCE_MULTIPLIER_FAIL == 0
PERFORMANCE_MULTIPLIER_NEW_GRIT == 12
PERFORMANCE_MULTIPLIER_NEW_CLEAN == 10
PERFORMANCE_MULTIPLIER_REVIEW == 3

\* mastery is clamped to [0.0, 1.0] (pedagogy.rs:259)
MASTERY_MAX == 100000

\* let track_id = 1 (pedagogy.rs:14)
track_id == 1

\* ------------------------------------------------------------------------
\* Bounds of the model
\* ------------------------------------------------------------------------
\* number of submit_attempt requests in one behaviour
MaxAttempts == 2
\* days the wall clock advances in one behaviour
MaxDays == 1
\* number of submit_attempt requests applied to a stored state (SpecStored)
MaxProbes == 1

\* ------------------------------------------------------------------------
\* Exact rational arithmetic for interval_days
\* ------------------------------------------------------------------------
RECURSIVE GCD(_, _)
GCD(a, b) == IF b = 0 THEN a ELSE GCD(b, a % b)

Rat(n, d) == LET g == GCD(n, d) IN <<n \div g, d \div g>>

\* x * (n / d), cross-cancelled before multiplying
RatMul(x, n, d) ==
    LET g1 == GCD(x[1], d)
        g2 == GCD(n, x[2])
        h1 == IF g1 = 0 THEN 1 ELSE g1
        h2 == IF g2 = 0 THEN 1 ELSE g2
    IN  Rat((x[1] \div h1) * (n \div h2), (x[2] \div h2) * (d \div h1))

RatLT(x, y) == x[1] * y[2] < y[1] * x[2]
RatLE(x, y) == x[1] * y[2] <= y[1] * x[2]

\* f64::clamp(lo, hi) on integers / on a fraction with integer limits
Clamp(v, lo, hi) == IF v < lo THEN lo ELSE IF v > hi THEN hi ELSE v

RatClamp(x, lo, hi) ==
    IF x[1] < lo * x[2] THEN <<lo, 1>>
    ELSE IF x[1] > hi * x[2] THEN <<hi, 1>>
    ELSE x

\* (interval_days * DAY_SECONDS as f64) as i64 : floor of the product.
\* 86400 = 240 * 360, multiplied in two exact steps to stay in range.
IntervalSeconds(x) ==
    LET whole == x[1] \div x[2]
        rem   == x[1] % x[2]
        q1    == (rem * 240) \div x[2]
        r1    == (rem * 240) % x[2]
    IN  whole * DAY_SECONDS + q1 * 360 + ((r1 * 360) \div x[2])

\* ------------------------------------------------------------------------
\* The seeded catalog (tables that are immutable after seeding)
\* ------------------------------------------------------------------------
\* skills(id)
skills == {1, 2, 3}

\* skill_prereqs(skill_id, prereq_id)
skill_prereqs == {<<2, 1>>, <<3, 1>>, <<3, 2>>}

\* problems(id, difficulty)
problems == {[id |-> 1, difficulty |-> "Medium"],
             [id |-> 2, difficulty |-> "Hard"],
             [id |-> 3, difficulty |-> "Easy"],
             [id |-> 5, difficulty |-> "Easy"],
             [id |-> 6, difficulty |-> "Easy"]}

\* problem_skills(problem_id, skill_id): problems 3 and 6 have no row (the
\* seed inserts none when the category names no skill)
problem_skills == {<<1, 1>>, <<2, 1>>, <<2, 2>>, <<5, 2>>}

\* track_problems(track_id, problem_id): the table is filled once, by the
\* seed, and read by the Discovery and Cram queries. SeededTrack puts every
\* problem in track 1; BareTrack holds only problem 5, whose one skill has
\* a prerequisite
VARIABLE track_problems
SeededTrack == {<<1, 1>>, <<1, 2>>, <<1, 3>>, <<1, 5>>, <<1, 6>>}
BareTrack == {<<1, 5>>}

\* alternatives(id, parent_id): problem 2 has three alternatives, 4 a pure
\* one (no problems row), 5 and 6 that are also catalog problems; problems 1
\* and 3 have none
alternatives == {[id |-> 4, parent_id |-> 2], [id |-> 5, parent_id |-> 2],
                 [id |-> 6, parent_id |-> 2]}

ProblemIds == {p.id : p \in problems}
AlternativeIds == {a.id : a \in alternatives}
\* catalog problems without a problem_skills row
UntaggedIds == {p \in ProblemIds : ~\E ps \in problem_skills : ps[1] = p}
\* canonical problems that carry skill tags
TaggedCanonicalIds == (ProblemIds \ AlternativeIds) \ UntaggedIds
\* ids a submit_attempt request may carry: every known id, and the known
\* ids that resolve to skill tags of their own or through a problems row
AllSubmitIds == ProblemIds \cup AlternativeIds
SubmitIds == AllSubmitIds \ UntaggedIds

\* AttemptLog payloads a request may carry: time_minutes, solved,
\* read_solution, revealed_skills.  5 is fast for every difficulty; 15 is
\* 1.5 x Easy and 0.6 x Medium; 90 is 2.0 x Hard; 91 is above 2.0 x every
\* expected time.
Payload(m, s, r, v) ==
    [time_minutes |-> m, solved |-> s, read_solution |-> r, revealed_skills |-> v]

Payloads == {Payload(5, TRUE, FALSE, FALSE), Payload(15, TRUE, FALSE, FALSE),
             Payload(90, TRUE, FALSE, FALSE),
             Payload(91, TRUE, FALSE, FALSE), Payload(5, TRUE, FALSE, TRUE),
             Payload(91, FALSE, FALSE, FALSE), Payload(5, TRUE, TRUE, FALSE)}

\* ------------------------------------------------------------------------
\* State
\* ------------------------------------------------------------------------
VARIABLES
    skill_state,    \* table skill_state: skill_id -> [mastery, attempts]
    problem_state,  \* table problem_state: set of rows, problem_id is the key
    attempts,       \* table attempts: the append-only log, in insertion order
    clock,          \* Utc::now().timestamp()
    rec,            \* response of a get_next_problem request, until the next
                    \* submit or tick (NoRec otherwise)
    sub,            \* the last submit_attempt request and what it resolved
    quota,          \* submit_attempt requests still to come in this behaviour
    db,             \* AppState.db: the request holding the mutex, 0 when free
    req             \* the requests in flight: slot -> position and locals

vars == <<skill_state, problem_state, attempts, clock, rec, sub, quota,
          track_problems, db, req>>
store == <<skill_state, problem_state, attempts>>
\* the mutex and the requests in flight
inflight == <<db, req>>

\* a request in which no storage call fails
NoFault == "none"
\* the repository functions get_next_problem calls; in a failing request
\* every call of the named function returns Err
NextFaults == {"find_due_review", "get_random_alternative", "get_unlocked_skills",
               "find_new_problem_for_skills", "find_cram_problem"}
\* the repository functions process_attempt calls
SubmitFaults == {"resolve_parent_id", "get_problem_metadata", "log_attempt",
                 "get_attempt_count", "get_problem_repetition_state",
                 "save_problem_repetition_state", "get_skill_state",
                 "update_skill_state"}

NoRec == [tier |-> "none", id |-> 0, unlocked |-> {}, failed |-> NoFault]
NoSub == [problem_id |-> 0, time_minutes |-> 0, solved |-> FALSE,
          read_solution |-> FALSE, revealed_skills |-> FALSE,
          parent_id |-> 0, difficulty |-> "Medium", skill_ids |-> {},
          prior_attempts |-> 0, had_state |-> FALSE,
          old_ease |-> 0, old_interval |-> <<0, 1>>,
          old_skill_state |-> [s \in skills |-> [mastery |-> 0, attempts |-> 0]],
          result |-> "none", failed |-> NoFault]

\* ------------------------------------------------------------------------
\* repository.rs: point queries
\* ------------------------------------------------------------------------
StateIds == {r.problem_id : r \in problem_state}
StateRow(pid) == CHOOSE r \in problem_state : r.problem_id = pid
AttemptIds == {attempts[i].problem_id : i \in 1..Len(attempts)}

get_skill_state(sid) == skill_state[sid]

\* resolve_parent_id that never finds an alternatives row
resolve_parent_id_self(problem_id) == <<problem_id, FALSE>>

\* (parent_id, is_alternative)
resolve_parent_id(problem_id) ==
    IF \E a \in alternatives : a.id = problem_id
    THEN <<(CHOOSE a \in alternatives : a.id = problem_id).parent_id, TRUE>>
    ELSE <<problem_id, FALSE>>

\* get_random_alternative without the WHERE parent_id = ? filter
get_random_alternative_any_parent(parent_id) == {a.id : a \in alternatives}

\* the set ORDER BY RANDOM() LIMIT 1 draws from
get_random_alternative(parent_id) ==
    {a.id : a \in {x \in alternatives : x.parent_id = parent_id}}

\* SELECT ease_factor, interval_days FROM problem_state, read from table
RepetitionStateIn(table, problem_id) ==
    IF \E r \in table : r.problem_id = problem_id
    THEN [problem_id |-> problem_id,
          ease_factor |-> (CHOOSE r \in table : r.problem_id = problem_id).ease_factor,
          interval_days |-> (CHOOSE r \in table : r.problem_id = problem_id).interval_days,
          next_review_ts |-> 0]
    ELSE [problem_id |-> problem_id,
          ease_factor |-> EASE_FACTOR_DEFAULT,
          interval_days |-> <<0, 1>>,
          next_review_ts |-> 0]

get_problem_repetition_state(problem_id) == RepetitionStateIn(problem_state, problem_id)

\* save_problem_repetition_state that replaces the table by the one row
save_problem_repetition_state_truncating(table, state) == {state}

\* INSERT OR REPLACE INTO problem_state: the table after the statement
save_problem_repetition_state(table, state) ==
    {r \in table : r.problem_id # state.problem_id} \cup {state}

\* INSERT INTO attempts: the table after the statement
log_attempt(table, problem_id, time_minutes, solved, read_solution, timestamp) ==
    Append(table, [problem_id |-> problem_id, time_minutes |-> time_minutes,
                   solved |-> solved, read_solution |-> read_solution,
                   timestamp |-> timestamp])

\* Difficulty::from_str
from_str(s) == IF s \in {"Easy", "Medium", "Hard"} THEN s ELSE "Medium"

\* Ok((difficulty, skills)), or Err when the id has no problems row
MetadataOk(problem_id) == problem_id \in ProblemIds
get_problem_metadata(problem_id) ==
    <<from_str((CHOOSE p \in problems : p.id = problem_id).difficulty),
      {ps[2] : ps \in {x \in problem_skills : x[1] = problem_id}}>>

\* get_attempt_count that leaves the newest row of the table out
get_attempt_count_before(table, problem_id) ==
    Cardinality({i \in 1..(Len(table) - 1) : table[i].problem_id = problem_id})

\* get_attempt_count without the WHERE problem_id = ? filter
get_attempt_count_any_problem(table, problem_id) == Len(table)

get_attempt_count(table, problem_id) ==
    Cardinality({i \in 1..Len(table) : table[i].problem_id = problem_id})

\* ------------------------------------------------------------------------
\* repository.rs: queries for get_next_problem
\* ------------------------------------------------------------------------
\* DueRows without the WHERE ps.next_review_ts <= ? cutoff
DueRowsNoCutoff(now_ts) ==
    {r \in problem_state : r.problem_id \in ProblemIds}

\* problem_state JOIN problems WHERE next_review_ts <= now
DueRows(now_ts) ==
    {r \in problem_state : r.problem_id \in ProblemIds /\ r.next_review_ts <= now_ts}

\* ORDER BY next_review_ts ASC LIMIT 1: the ids the first row may carry
find_due_review(now_ts) ==
    {r.problem_id : r \in {x \in DueRows(now_ts) :
        \A y \in DueRows(now_ts) : x.next_review_ts <= y.next_review_ts}}

\* PrereqFailed without the consolidation clause
PrereqFailedMasteryOnly(ss) == ss.mastery < MASTERY_UNLOCK_THRESHOLD

\* the WHERE clause that counts a prerequisite row as failed
PrereqFailed(ss) ==
    \/ ss.mastery < MASTERY_UNLOCK_THRESHOLD
    \/ (ss.mastery < MASTERY_CONSOLIDATION_THRESHOLD
        /\ ss.attempts < ATTEMPTS_CONSOLIDATION_THRESHOLD)

\* count(*) of skill_prereqs JOIN skill_state rows of sid that fail (seeding
\* gives every skill a skill_state row, so the join drops no prerequisite)
failed_prereqs(sid) ==
    Cardinality({sp \in skill_prereqs :
        sp[1] = sid /\ PrereqFailed(skill_state[sp[2]])})

\* get_unlocked_skills answered from the skill states read before the last
\* submit
get_unlocked_skills_cached ==
    {sid \in skills :
        \A sp \in skill_prereqs : sp[1] = sid => ~PrereqFailed(sub.old_skill_state[sp[2]])}

get_unlocked_skills == {sid \in skills : failed_prereqs(sid) = 0}

\* DifficultyRank with the CASE arms in the opposite order
DifficultyRankDescending(d) ==
    IF d = "Easy" THEN 3 ELSE IF d = "Medium" THEN 2 ELSE IF d = "Hard" THEN 1 ELSE 4

\* CASE p.difficulty WHEN 'Easy' THEN 1 ... ELSE 4
DifficultyRank(d) ==
    IF d = "Easy" THEN 1 ELSE IF d = "Medium" THEN 2 ELSE IF d = "Hard" THEN 3 ELSE 4

\* ExcludedAsNew without the first sub-select (the problem itself is tracked)
ExcludedAsNewNoState(pid) ==
    \/ \E a \in alternatives : a.id = pid /\ a.parent_id \in StateIds
    \/ \E a \in alternatives : a.parent_id = pid /\ a.id \in AttemptIds

\* the three NOT IN sub-selects of the discovery query
ExcludedAsNew(pid) ==
    \/ pid \in StateIds
    \/ \E a \in alternatives : a.id = pid /\ a.parent_id \in StateIds
    \/ \E a \in alternatives : a.parent_id = pid /\ a.id \in AttemptIds

\* NewRows without the ps.skill_id IN (...) filter
NewRowsAnySkill(track, skill_ids) ==
    {p \in problems :
        /\ <<track, p.id>> \in track_problems
        /\ \E ps \in problem_skills : ps[1] = p.id
        /\ ~ExcludedAsNew(p.id)}

\* rows of problems JOIN track_problems JOIN problem_skills passing the WHERE
NewRows(track, skill_ids) ==
    {p \in problems :
        /\ <<track, p.id>> \in track_problems
        /\ \E ps \in problem_skills : ps[1] = p.id /\ ps[2] \in skill_ids
        /\ ~ExcludedAsNew(p.id)}

\* ORDER BY difficulty rank, RANDOM() LIMIT 1: the ids the first row may carry
find_new_problem_for_skills(track, skill_ids) ==
    IF skill_ids = {} THEN {}
    ELSE {p.id : p \in {x \in NewRows(track, skill_ids) :
            \A y \in NewRows(track, skill_ids) :
                DifficultyRank(x.difficulty) <= DifficultyRank(y.difficulty)}}

\* CramRows without the ps.skill_id IN (...) filter
CramRowsAnySkill(track, skill_ids) ==
    {ps \in problem_skills :
        /\ ps[1] \in ProblemIds
        /\ <<track, ps[1]>> \in track_problems}

\* CramRows with the seen / attempted exclusions of the discovery query
CramRowsUnseen(track, skill_ids) ==
    {ps \in problem_skills :
        /\ ps[1] \in ProblemIds
        /\ <<track, ps[1]>> \in track_problems
        /\ ps[2] \in skill_ids
        /\ ~ExcludedAsNew(ps[1])}

\* rows <<problem id, skill id>> of the cram join passing the WHERE
CramRows(track, skill_ids) ==
    {ps \in problem_skills :
        /\ ps[1] \in ProblemIds
        /\ <<track, ps[1]>> \in track_problems
        /\ ps[2] \in skill_ids}

\* find_cram_problem without the ORDER BY ss.mastery
find_cram_problem_unordered(track, skill_ids) ==
    IF skill_ids = {} THEN {}
    ELSE {x[1] : x \in CramRows(track, skill_ids)}

\* ORDER BY ss.mastery ASC, RANDOM() LIMIT 1
find_cram_problem(track, skill_ids) ==
    IF skill_ids = {} THEN {}
    ELSE {x[1] : x \in {r \in CramRows(track, skill_ids) :
            \A y \in CramRows(track, skill_ids) :
                skill_state[r[2]].mastery <= skill_state[y[2]].mastery}}

\* ------------------------------------------------------------------------
\* pedagogy.rs: get_next_problem
\* ------------------------------------------------------------------------
\* get_next_problem with the Discovery tier tried before the Due Review tier
NextResponsesDiscoveryFirst(now) ==
    LET due == find_due_review(now)
        unlocked_skills == get_unlocked_skills
        fresh == find_new_problem_for_skills(track_id, unlocked_skills)
        cram == find_cram_problem(track_id, unlocked_skills)
    IN  IF fresh # {}
        THEN {[tier |-> "discovery", id |-> p, unlocked |-> unlocked_skills,
               failed |-> NoFault] : p \in fresh}
        ELSE IF due # {}
        THEN UNION {
               IF get_random_alternative(parent) # {}
               THEN {[tier |-> "variation", id |-> a, unlocked |-> {}, failed |-> NoFault] :
                        a \in get_random_alternative(parent)}
               ELSE {[tier |-> "review", id |-> parent, unlocked |-> {}, failed |-> NoFault]}
               : parent \in due}
        ELSE IF cram # {}
        THEN {[tier |-> "cram", id |-> p, unlocked |-> unlocked_skills,
               failed |-> NoFault] : p \in cram}
        ELSE {[tier |-> "absent", id |-> 0, unlocked |-> unlocked_skills,
               failed |-> NoFault]}

\* the responses get_next_problem may return at time now when the calls of
\* fault fail: a tier query that is not Ok(Some(_)) is skipped, the
\* alternative lookup that is not Ok(Some(_)) leaves the parent, and only
\* get_unlocked_skills is propagated with ?
get_next_problem(now, fault) ==
    LET due == IF fault = "find_due_review" THEN {} ELSE find_due_review(now)
        alt(parent) == IF fault = "get_random_alternative" THEN {}
                       ELSE get_random_alternative(parent)
        unlocked_skills == get_unlocked_skills
        fresh == IF fault = "find_new_problem_for_skills" THEN {}
                 ELSE find_new_problem_for_skills(track_id, unlocked_skills)
        cram == IF fault = "find_cram_problem" THEN {}
                ELSE find_cram_problem(track_id, unlocked_skills)
        \* the failing function, when the request got as far as calling it
        Failed(called) == IF fault \in called THEN fault ELSE NoFault
        in_review == {"find_due_review", "get_random_alternative"}
        in_discovery == {"find_due_review", "get_unlocked_skills",
                         "find_new_problem_for_skills"}
    IN  IF due # {}
        THEN UNION {
               IF alt(parent) # {}
               THEN {[tier |-> "variation", id |-> a, unlocked |-> {},
                      failed |-> Failed(in_review)] : a \in alt(parent)}
               ELSE {[tier |-> "review", id |-> parent, unlocked |-> {},
                      failed |-> Failed(in_review)]}
               : parent \in due}
        ELSE IF fault = "get_unlocked_skills"
        THEN {[tier |-> "error", id |-> 0, unlocked |-> {}, failed |-> fault]}
        ELSE IF fresh # {}
        THEN {[tier |-> "discovery", id |-> p, unlocked |-> unlocked_skills,
               failed |-> Failed(in_discovery)] : p \in fresh}
        ELSE IF cram # {}
        THEN {[tier |-> "cram", id |-> p, unlocked |-> unlocked_skills,
               failed |-> Failed(NextFaults \ {"get_random_alternative"})] : p \in cram}
        ELSE {[tier |-> "absent", id |-> 0, unlocked |-> unlocked_skills,
               failed |-> Failed(NextFaults \ {"get_random_alternative"})]}

\* the responses get_next_problem may return at time now
NextResponses(now) == get_next_problem(now, NoFault)

\* ------------------------------------------------------------------------
\* pedagogy.rs: update_repetition_logic
\* ------------------------------------------------------------------------
ExpectedTime(difficulty) ==
    IF difficulty = "Easy" THEN EXPECTED_TIME_EASY
    ELSE IF difficulty = "Medium" THEN EXPECTED_TIME_MEDIUM
    ELSE EXPECTED_TIME_HARD

\* time_ratio = time_minutes / expected_time, as the fraction <<minutes, expected>>
time_ratio(log, difficulty) == <<log.time_minutes, ExpectedTime(difficulty)>>

is_fail(log) == ~log.solved \/ log.read_solution

is_new(prior_attempts) == prior_attempts <= 1

\* time_ratio >= 1.5
IsGritInclusive(ratio) == RatLE(<<3, 2>>, ratio)

\* time_ratio > 1.5
IsGrit(ratio) == RatLT(<<3, 2>>, ratio)
\* time_ratio >= 2.0
IsStruggleInclusive(ratio) == RatLE(<<2, 1>>, ratio)

\* time_ratio > 2.0
IsStruggle(ratio) == RatLT(<<2, 1>>, ratio)
\* time_ratio < 0.6
IsSpeed(ratio) == RatLT(ratio, <<3, 5>>)

\* FailBranch that lowers the ease factor but leaves the interval alone
FailBranchKeepInterval(state) ==
    [state EXCEPT
        !.ease_factor = IF state.ease_factor - EASE_FACTOR_DECREMENT_FAIL < EASE_FACTOR_MIN
                        THEN EASE_FACTOR_MIN
                        ELSE state.ease_factor - EASE_FACTOR_DECREMENT_FAIL]

FailBranch(state) ==
    [state EXCEPT
        !.ease_factor = IF state.ease_factor - EASE_FACTOR_DECREMENT_FAIL < EASE_FACTOR_MIN
                        THEN EASE_FACTOR_MIN
                        ELSE state.ease_factor - EASE_FACTOR_DECREMENT_FAIL,
        !.interval_days = <<INTERVAL_MIN, 1>>]

NewBranch(state, ratio) ==
    IF IsGrit(ratio)
    THEN [state EXCEPT !.ease_factor = state.ease_factor - EASE_FACTOR_NEUTRAL_GRIT,
                       !.interval_days = <<INTERVAL_NEW_GRIT, 1>>]
    ELSE [state EXCEPT !.ease_factor = state.ease_factor + EASE_FACTOR_INCREMENT_CLEAN,
                       !.interval_days = <<INTERVAL_NEW_CLEAN, 1>>]

\* ReviewBranch whose speed multiplier reads the ease factor after clamping
ReviewBranchClampedEase(state, ratio) ==
    IF IsStruggle(ratio)
    THEN [state EXCEPT
            !.ease_factor = state.ease_factor - EASE_FACTOR_DECREMENT_STRUGGLE,
            !.interval_days = RatMul(state.interval_days, INTERVAL_MULTIPLIER_STRUGGLE, 10)]
    ELSE IF IsSpeed(ratio)
    THEN [state EXCEPT
            !.ease_factor = state.ease_factor + EASE_FACTOR_INCREMENT_SPEED,
            !.interval_days = RatMul(state.interval_days,
                Clamp(state.ease_factor + EASE_FACTOR_INCREMENT_SPEED,
                      EASE_FACTOR_MIN, EASE_FACTOR_MAX) * INTERVAL_MULTIPLIER_SPEED,
                1000)]
    ELSE [state EXCEPT
            !.interval_days = RatMul(state.interval_days, state.ease_factor, 100)]

ReviewBranch(state, ratio) ==
    IF IsStruggle(ratio)
    THEN [state EXCEPT
            !.ease_factor = state.ease_factor - EASE_FACTOR_DECREMENT_STRUGGLE,
            !.interval_days = RatMul(state.interval_days, INTERVAL_MULTIPLIER_STRUGGLE, 10)]
    ELSE IF IsSpeed(ratio)
    THEN [state EXCEPT
            !.ease_factor = state.ease_factor + EASE_FACTOR_INCREMENT_SPEED,
            \* the multiplier reads the ease factor just incremented, not yet clamped
            !.interval_days = RatMul(state.interval_days,
                (state.ease_factor + EASE_FACTOR_INCREMENT_SPEED) * INTERVAL_MULTIPLIER_SPEED,
                1000)]
    ELSE [state EXCEPT
            !.interval_days = RatMul(state.interval_days, state.ease_factor, 100)]

\* Clamping with the interval clamp left out
ClampingEaseOnly(state, now) ==
    [problem_id |-> state.problem_id,
     ease_factor |-> Clamp(state.ease_factor, EASE_FACTOR_MIN, EASE_FACTOR_MAX),
     interval_days |-> state.interval_days,
     next_review_ts |-> now + IntervalSeconds(state.interval_days)]

\* Clamping that schedules the review at the time of the attempt
ClampingDueNow(state, now) ==
    [state EXCEPT
        !.ease_factor = Clamp(state.ease_factor, EASE_FACTOR_MIN, EASE_FACTOR_MAX),
        !.interval_days = RatClamp(state.interval_days, INTERVAL_MIN, INTERVAL_MAX),
        !.next_review_ts = now]

\* the "Clamping" block and next_review_ts
Clamping(state, now) ==
    LET ease == Clamp(state.ease_factor, EASE_FACTOR_MIN, EASE_FACTOR_MAX)
        interval == RatClamp(state.interval_days, INTERVAL_MIN, INTERVAL_MAX)
    IN  [problem_id |-> state.problem_id,
         ease_factor |-> ease,
         interval_days |-> interval,
         next_review_ts |-> now + IntervalSeconds(interval)]

\* the row update_repetition_logic saves, from the row it read
update_repetition_logic(state, log, difficulty, prior_attempts, now) ==
    LET ratio == time_ratio(log, difficulty)
    IN  Clamping(
            IF is_fail(log) THEN FailBranch(state)
            ELSE IF is_new(prior_attempts) THEN NewBranch(state, ratio)
            ELSE ReviewBranch(state, ratio),
            now)

\* ------------------------------------------------------------------------
\* pedagogy.rs: update_mastery_logic
\* ------------------------------------------------------------------------
DifficultyMultiplier(difficulty) ==
    IF difficulty = "Easy" THEN DIFFICULTY_MULTIPLIER_EASY
    ELSE IF difficulty = "Medium" THEN DIFFICULTY_MULTIPLIER_MEDIUM
    ELSE DIFFICULTY_MULTIPLIER_HARD

\* perf_mult where a fail costs mastery
perf_mult_fail_penalty(table, log, difficulty) ==
    IF is_fail(log) THEN 0 - PERFORMANCE_MULTIPLIER_NEW_CLEAN
    ELSE IF IsGrit(time_ratio(log, difficulty)) THEN PERFORMANCE_MULTIPLIER_NEW_GRIT
    ELSE IF get_attempt_count(table, log.problem_id) > 1 THEN PERFORMANCE_MULTIPLIER_REVIEW
    ELSE PERFORMANCE_MULTIPLIER_NEW_CLEAN

\* table is the attempts table the function reads (the new attempt is in it)
perf_mult(table, log, difficulty) ==
    IF is_fail(log) THEN PERFORMANCE_MULTIPLIER_FAIL
    ELSE IF IsGrit(time_ratio(log, difficulty)) THEN PERFORMANCE_MULTIPLIER_NEW_GRIT
    ELSE IF get_attempt_count(table, log.problem_id) > 1 THEN PERFORMANCE_MULTIPLIER_REVIEW
    ELSE PERFORMANCE_MULTIPLIER_NEW_CLEAN

\* scaffolding_mult that ignores revealed_skills
scaffolding_mult_ignored(log) == 10

scaffolding_mult(log) == IF log.revealed_skills THEN 5 ELSE 10

\* delta in units of 10^-5
MasteryDelta(table, log, difficulty) ==
    ALPHA * DifficultyMultiplier(difficulty) * perf_mult(table, log, difficulty)
          * scaffolding_mult(log)

\* UpdatedSkill without the clamp to [0, 1]
UpdatedSkillNoClamp(s_state, delta) ==
    [mastery |-> s_state.mastery + delta,
     attempts |-> s_state.attempts + 1]

\* UpdatedSkill under which the stored mastery decays by a tenth before the
\* delta is added
UpdatedSkillDecaying(s_state, delta) ==
    [mastery |-> Clamp((s_state.mastery * 9) \div 10 + delta, 0, MASTERY_MAX),
     attempts |-> s_state.attempts + 1]

\* one iteration of the loop over skill_ids
UpdatedSkill(s_state, delta) ==
    [mastery |-> Clamp(s_state.mastery + delta, 0, MASTERY_MAX),
     attempts |-> s_state.attempts + 1]

\* update_mastery_logic whose UPDATE reaches every skill_state row
update_mastery_logic_every_row(ss, table, log, difficulty, skill_ids) ==
    [sid \in skills |->
        IF skill_ids # {}
        THEN UpdatedSkill(ss[sid], MasteryDelta(table, log, difficulty))
        ELSE ss[sid]]

\* the skill_state table after update_mastery_logic
update_mastery_logic(ss, table, log, difficulty, skill_ids) ==
    [sid \in skills |->
        IF sid \in skill_ids
        THEN UpdatedSkill(ss[sid], MasteryDelta(table, log, difficulty))
        ELSE ss[sid]]

\* ------------------------------------------------------------------------
\* pedagogy.rs: process_attempt
\* ------------------------------------------------------------------------
\* ResolveMetadata without the skill_ids.is_empty() retry on the parent
ResolveMetadataNoRetry(problem_id, parent_id) ==
    IF MetadataOk(problem_id) THEN get_problem_metadata(problem_id)
    ELSE IF MetadataOk(parent_id) THEN get_problem_metadata(parent_id)
    ELSE <<"Medium", {}>>

\* step 2: (difficulty, skill_ids) credited for the submitted id
ResolveMetadata(problem_id, parent_id) ==
    LET first == IF MetadataOk(problem_id) THEN get_problem_metadata(problem_id)
                 ELSE IF MetadataOk(parent_id) THEN get_problem_metadata(parent_id)
                 ELSE <<"Medium", {}>>
    IN  IF first[2] = {} /\ MetadataOk(parent_id)
        THEN <<first[1], get_problem_metadata(parent_id)[2]>>
        ELSE first

\* AttemptLog { problem_id: parent_id, .. } handed to both updaters
logic_log(log, parent_id) == [log EXCEPT !.problem_id = parent_id]

\* the three tables a request writes, as one value
Store(att, ps, ss) == [attempts |-> att, problem_state |-> ps, skill_state |-> ss]

\* LogStep that logs the attempt under the canonical id
LogStepOnParent(S, log, now) ==
    [S EXCEPT !.attempts = log_attempt(S.attempts, resolve_parent_id(log.problem_id)[1],
                                       log.time_minutes, log.solved, log.read_solution, now)]

\* step 3: the attempt is logged under the submitted id
LogStep(S, log, now) ==
    [S EXCEPT !.attempts = log_attempt(S.attempts, log.problem_id, log.time_minutes,
                                       log.solved, log.read_solution, now)]

\* step 4: update_repetition_logic on the canonical id
RepetitionStep(S, llog, difficulty, prior_attempts, now) ==
    [S EXCEPT !.problem_state =
        save_problem_repetition_state(S.problem_state,
            update_repetition_logic(RepetitionStateIn(S.problem_state, llog.problem_id),
                                    llog, difficulty, prior_attempts, now))]

\* MasteryStep that credits skills only once the problem has a saved
\* repetition state
MasteryStepWhenScheduled(S, llog, difficulty, skill_ids) ==
    IF \E r \in S.problem_state : r.problem_id = llog.problem_id
    THEN [S EXCEPT !.skill_state =
            update_mastery_logic(S.skill_state, S.attempts, llog, difficulty, skill_ids)]
    ELSE S

\* step 5: update_mastery_logic on the credited skills
MasteryStep(S, llog, difficulty, skill_ids) ==
    [S EXCEPT !.skill_state =
        update_mastery_logic(S.skill_state, S.attempts, llog, difficulty, skill_ids)]

\* what get_skill_state hands to the loop: its or_else turns every Err into
\* the row (mastery 0.0, attempts 0)
SkillRowsRead(ss, skill_ids, fault) ==
    [sid \in skills |->
        IF fault = "get_skill_state" /\ sid \in skill_ids
        THEN [mastery |-> 0, attempts |-> 0]
        ELSE ss[sid]]

\* the faults process_attempt answers with Err: those it propagates with ?
AbortingFaults == SubmitFaults \ {"get_problem_metadata", "get_skill_state"}

\* process_attempt on the store S when the calls of fault fail: the store
\* it leaves, Ok or Err, and the values it resolved
process_result(S, log, now, fault) ==
    LET parent_id == resolve_parent_id(log.problem_id)[1]
        \* unwrap_or_else / unwrap_or / if let Ok: an Err of get_problem_metadata
        \* leaves (Medium, no skills)
        meta == IF fault = "get_problem_metadata" THEN <<"Medium", {}>>
                ELSE ResolveMetadata(log.problem_id, parent_id)
        difficulty == meta[1]
        skill_ids == meta[2]
        llog == logic_log(log, parent_id)
        S3 == LogStep(S, log, now)
        prior_attempts_parent == get_attempt_count(S3.attempts, parent_id)
        S4 == RepetitionStep(S3, llog, difficulty, prior_attempts_parent, now)
        S5 == MasteryStep([S4 EXCEPT !.skill_state =
                              SkillRowsRead(S4.skill_state, skill_ids, fault)],
                          llog, difficulty, skill_ids)
        \* the loop over skill_ids makes no call when skill_ids is empty
        failed == IF fault \in {"get_skill_state", "update_skill_state"} /\ skill_ids = {}
                  THEN NoFault ELSE fault
        old == RepetitionStateIn(S.problem_state, parent_id)
    IN  [store |-> IF failed \in {"resolve_parent_id", "log_attempt"} THEN S
                   ELSE IF failed \in {"get_attempt_count", "get_problem_repetition_state",
                                       "save_problem_repetition_state"} THEN S3
                   ELSE IF failed = "update_skill_state" THEN S4
                   ELSE S5,
         result |-> IF failed \in AbortingFaults THEN "error" ELSE "ok",
         failed |-> failed,
         parent_id |-> parent_id, difficulty |-> difficulty, skill_ids |-> skill_ids,
         prior_attempts |-> prior_attempts_parent,
         had_state |-> \E r \in S.problem_state : r.problem_id = parent_id,
         old_ease |-> old.ease_factor, old_interval |-> old.interval_days]

\* the whole handler when the calls of fault fail
process_attempt_failing(log, fault) ==
    \E r \in {process_result(Store(attempts, problem_state, skill_state), log, clock, fault)} :
        /\ attempts' = r.store.attempts
        /\ problem_state' = r.store.problem_state
        /\ skill_state' = r.store.skill_state
        /\ sub' = [problem_id |-> log.problem_id, time_minutes |-> log.time_minutes,
                   solved |-> log.solved, read_solution |-> log.read_solution,
                   revealed_skills |-> log.revealed_skills,
                   parent_id |-> r.parent_id, difficulty |-> r.difficulty,
                   skill_ids |-> r.skill_ids,
                   prior_attempts |-> r.prior_attempts,
                   had_state |-> r.had_state,
                   old_ease |-> r.old_ease, old_interval |-> r.old_interval,
                   old_skill_state |-> skill_state,
                   result |-> r.result, failed |-> r.failed]

\* the whole handler: resolve, log, repetition update, mastery update
process_attempt(log) == process_attempt_failing(log, NoFault)

\* ------------------------------------------------------------------------
\* The state machine
\* ------------------------------------------------------------------------
\* two requests may be in flight
Slots == {1, 2}
\* a slot no request has entered
NoLog == [problem_id |-> 0, time_minutes |-> 0, solved |-> FALSE,
          read_solution |-> FALSE, revealed_skills |-> FALSE]
Idle == [pc |-> "idle", kind |-> "none", log |-> NoLog, parent_id |-> 0,
         difficulty |-> "Medium", skill_ids |-> {}, prior_attempts |-> 0,
         response |-> NoRec]

\* the store right after init_db / seed_data on an empty database
Init ==
    /\ skill_state = [s \in skills |-> [mastery |-> 0, attempts |-> 0]]
    /\ problem_state = {}
    /\ attempts = <<>>
    /\ clock = 0
    /\ rec = NoRec
    /\ sub = NoSub
    /\ quota = MaxAttempts
    /\ track_problems = SeededTrack
    /\ db = 0
    /\ req = [r \in Slots |-> Idle]

\* command get_next_problem
GetNextProblem ==
    /\ rec' \in NextResponses(clock)
    /\ UNCHANGED <<skill_state, problem_state, attempts, clock, sub, quota, track_problems>>
    /\ UNCHANGED inflight

\* command submit_attempt
SubmitAttempt ==
    /\ quota > 0
    /\ quota' = quota - 1
    /\ \E pid \in SubmitIds, a \in Payloads :
            process_attempt([problem_id |-> pid, time_minutes |-> a.time_minutes,
                             solved |-> a.solved, read_solution |-> a.read_solution,
                             revealed_skills |-> a.revealed_skills])
    /\ rec' = NoRec
    /\ UNCHANGED <<clock, track_problems, inflight>>

\* a day passes between two requests
Tick ==
    /\ clock < MaxDays * DAY_SECONDS
    /\ clock' = clock + DAY_SECONDS
    /\ rec' = NoRec
    /\ UNCHANGED <<skill_state, problem_state, attempts, sub, quota, track_problems>>
    /\ UNCHANGED inflight

Next == GetNextProblem \/ SubmitAttempt \/ Tick

Spec == Init /\ [][Next]_vars

\* ------------------------------------------------------------------------
\* The updaters and the unlock resolver as functions of a stored state
\* ------------------------------------------------------------------------
\* ease factors a stored row may hold: the limits, one step inside them,
\* and the default
StoredEase == {EASE_FACTOR_MIN, EASE_FACTOR_MIN + 10, EASE_FACTOR_DEFAULT,
               EASE_FACTOR_MAX - 10, EASE_FACTOR_MAX}
\* intervals a stored row may hold
StoredInterval == {<<INTERVAL_MIN, 1>>, <<INTERVAL_NEW_CLEAN, 1>>, <<INTERVAL_MAX, 1>>}
\* skill_state rows around the two mastery thresholds and the attempt threshold
StoredSkill ==
    {[mastery |-> 0, attempts |-> 0],
     [mastery |-> MASTERY_UNLOCK_THRESHOLD - 1, attempts |-> 2],
     [mastery |-> MASTERY_UNLOCK_THRESHOLD, attempts |-> 1],
     [mastery |-> MASTERY_UNLOCK_THRESHOLD, attempts |-> 2],
     [mastery |-> 75000, attempts |-> 1],
     [mastery |-> MASTERY_CONSOLIDATION_THRESHOLD - 1, attempts |-> 1],
     [mastery |-> MASTERY_CONSOLIDATION_THRESHOLD - 1, attempts |-> 2],
     [mastery |-> MASTERY_CONSOLIDATION_THRESHOLD, attempts |-> 0],
     [mastery |-> 95000, attempts |-> 0]}

\* pairs a saved row can hold: interval 1.0 is left by a fail or by a slow
\* review, after which the ease is at most 4.85; interval 4.0 is set by a
\* clean new attempt, after which the ease is at least 1.45
StoredRowOk(e, iv) ==
    /\ iv = <<INTERVAL_MIN, 1>> => e <= EASE_FACTOR_MAX - EASE_FACTOR_DECREMENT_STRUGGLE
    /\ iv = <<INTERVAL_NEW_CLEAN, 1>> => e >= EASE_FACTOR_MIN + EASE_FACTOR_INCREMENT_CLEAN

\* one earlier attempt at time 0
EarlierAttempt(pid) ==
    [problem_id |-> pid, time_minutes |-> 5, solved |-> TRUE,
     read_solution |-> FALSE, timestamp |-> 0]

\* inputs of update_repetition_logic: the stored row of a canonical problem
\* and the earlier attempt, logged on it or on one of its alternatives
InitStoredRow ==
    \E pid \in TaggedCanonicalIds, e \in StoredEase, iv \in StoredInterval :
      \E logged_on \in {pid} \cup get_random_alternative(pid) :
        /\ StoredRowOk(e, iv)
        /\ problem_state = {[problem_id |-> pid, ease_factor |-> e, interval_days |-> iv,
                             next_review_ts |-> IntervalSeconds(iv)]}
        /\ attempts = <<EarlierAttempt(logged_on)>>
        /\ track_problems = SeededTrack
        /\ skill_state = [s \in skills |-> [mastery |-> 0, attempts |-> 0]]

\* inputs of get_unlocked_skills: the skill_state rows of the prerequisites
InitStoredSkills ==
    /\ problem_state = {}
    /\ attempts = <<>>
    /\ track_problems \in {SeededTrack, BareTrack}
    /\ \E s1 \in StoredSkill, s2 \in StoredSkill :
        skill_state = [s \in skills |->
            IF s = 1 THEN s1 ELSE IF s = 2 THEN s2 ELSE [mastery |-> 0, attempts |-> 0]]

\* inputs of find_cram_problem: both canonical problems hold a state that
\* is not due, so that no Discovery candidate is left; each skill has at
\* least the attempts those two submits gave it
InitStoredTracked ==
    /\ problem_state =
        {[problem_id |-> pid, ease_factor |-> EASE_FACTOR_DEFAULT + EASE_FACTOR_INCREMENT_CLEAN,
          interval_days |-> <<INTERVAL_NEW_CLEAN, 1>>,
          next_review_ts |-> IntervalSeconds(<<INTERVAL_NEW_CLEAN, 1>>)] :
            pid \in TaggedCanonicalIds}
    /\ attempts = <<EarlierAttempt(1), EarlierAttempt(2)>>
    /\ track_problems = SeededTrack
    /\ \E s1 \in StoredSkill, s2 \in StoredSkill :
        /\ s1.attempts >= 2
        /\ s2.attempts >= 1
        /\ skill_state = [s \in skills |->
            IF s = 1 THEN s1 ELSE IF s = 2 THEN s2 ELSE [mastery |-> 0, attempts |-> 0]]

InitStored ==
    /\ \/ InitStoredRow
       \/ InitStoredSkills
       \/ InitStoredTracked
    /\ clock = 0
    /\ rec = NoRec
    /\ sub = NoSub
    /\ quota = MaxProbes
    /\ db = 0
    /\ req = [r \in Slots |-> Idle]

NextStored == GetNextProblem \/ SubmitAttempt

SpecStored == InitStored /\ [][NextStored]_vars

\* ------------------------------------------------------------------------
\* Requests on every known id, with and without a failing storage function
\* ------------------------------------------------------------------------
\* a clean solve and a fail
EdgePayloads == {Payload(5, TRUE, FALSE, FALSE), Payload(5, FALSE, FALSE, FALSE)}

\* AttemptLog as deserialized from the request
AttemptLogOf(pid, a) ==
    [problem_id |-> pid, time_minutes |-> a.time_minutes, solved |-> a.solved,
     read_solution |-> a.read_solution, revealed_skills |-> a.revealed_skills]

\* the store right after init_db / seed_data on an empty database
InitFault ==
    /\ skill_state = [s \in skills |-> [mastery |-> 0, attempts |-> 0]]
    /\ problem_state = {}
    /\ attempts = <<>>
    /\ clock = 0
    /\ rec = NoRec
    /\ sub = NoSub
    /\ quota = MaxProbes
    /\ track_problems = SeededTrack
    /\ db = 0
    /\ req = [r \in Slots |-> Idle]

\* command get_next_problem while the calls of one repository function fail
GetNextProblemFaulty ==
    /\ \E fault \in NextFaults : rec' \in get_next_problem(clock, fault)
    /\ UNCHANGED <<skill_state, problem_state, attempts, clock, sub, quota, track_problems>>
    /\ UNCHANGED inflight

\* command submit_attempt on any known id, the untagged ones included
SubmitAttemptEdge ==
    /\ quota > 0
    /\ quota' = quota - 1
    /\ \E pid \in AllSubmitIds, a \in EdgePayloads : process_attempt(AttemptLogOf(pid, a))
    /\ rec' = NoRec
    /\ UNCHANGED <<clock, track_problems, inflight>>

\* command submit_attempt while the calls of one repository function fail
SubmitAttemptFaulty ==
    /\ quota > 0
    /\ quota' = quota - 1
    /\ \E pid \in AllSubmitIds, a \in EdgePayloads, fault \in SubmitFaults :
            process_attempt_failing(AttemptLogOf(pid, a), fault)
    /\ rec' = NoRec
    /\ UNCHANGED <<clock, track_problems, inflight>>

NextFault ==
    \/ GetNextProblem
    \/ GetNextProblemFaulty
    \/ SubmitAttemptEdge
    \/ SubmitAttemptFaulty
    \/ Tick

SpecFault == InitFault /\ [][NextFault]_vars

\* ------------------------------------------------------------------------
\* Two requests in flight: the commands as sequences of storage operations
\* ------------------------------------------------------------------------
\* ids the two requests submit: two canonical problems and an Alternative
MutexIds == {1, 2, 4}

\* everything but the tables, the mutex and the requests in flight
session == <<clock, rec, sub, quota, track_problems>>

\* the frontend invokes a command
Invoke(r) ==
    /\ req[r].pc = "idle"
    /\ \E k \in {[Idle EXCEPT !.pc = "lock", !.kind = "get_next_problem"]} \cup
                {[Idle EXCEPT !.pc = "lock", !.kind = "submit_attempt",
                              !.log = AttemptLogOf(pid, a)] :
                    pid \in MutexIds, a \in EdgePayloads} :
            req' = [req EXCEPT ![r] = k]
    /\ UNCHANGED <<store, session, db>>

\* Lock that is granted while another request holds the mutex
LockNoWait(r) ==
    /\ req[r].pc = "lock"
    /\ db' = r
    /\ req' = [req EXCEPT ![r].pc =
                  IF req[r].kind = "get_next_problem" THEN "select" ELSE "log"]
    /\ UNCHANGED <<store, session>>

\* state.db.lock(): the first statement of both commands, blocking while
\* another request holds the guard
Lock(r) ==
    /\ req[r].pc = "lock"
    /\ db = 0
    /\ db' = r
    /\ req' = [req EXCEPT ![r].pc =
                  IF req[r].kind = "get_next_problem" THEN "select" ELSE "log"]
    /\ UNCHANGED <<store, session>>

\* get_next_problem: its queries, none of which writes
Select(r) ==
    /\ req[r].pc = "select"
    /\ \E resp \in NextResponses(clock) :
            req' = [req EXCEPT ![r].pc = "return", ![r].response = resp]
    /\ UNCHANGED <<store, session, db>>

\* process_attempt steps 1 to 3: the reads of the catalog, then the INSERT
LogAttempt(r) ==
    LET log == req[r].log
        parent_id == resolve_parent_id(log.problem_id)[1]
        meta == ResolveMetadata(log.problem_id, parent_id)
    IN  /\ req[r].pc = "log"
        /\ attempts' = LogStep(Store(attempts, problem_state, skill_state), log, clock).attempts
        /\ req' = [req EXCEPT ![r].pc = "count", ![r].parent_id = parent_id,
                              ![r].difficulty = meta[1], ![r].skill_ids = meta[2]]
        /\ UNCHANGED <<problem_state, skill_state, session, db>>

\* process_attempt step 4, first half: get_attempt_count on the parent
CountAttempts(r) ==
    /\ req[r].pc = "count"
    /\ req' = [req EXCEPT ![r].pc = "repetition",
                          ![r].prior_attempts = get_attempt_count(attempts, req[r].parent_id)]
    /\ UNCHANGED <<store, session, db>>

\* process_attempt step 4, second half: update_repetition_logic
UpdateRepetition(r) ==
    /\ req[r].pc = "repetition"
    /\ problem_state' =
            RepetitionStep(Store(attempts, problem_state, skill_state),
                           logic_log(req[r].log, req[r].parent_id), req[r].difficulty,
                           req[r].prior_attempts, clock).problem_state
    /\ req' = [req EXCEPT ![r].pc = "mastery"]
    /\ UNCHANGED <<attempts, skill_state, session, db>>

\* process_attempt step 5: update_mastery_logic
UpdateMastery(r) ==
    /\ req[r].pc = "mastery"
    /\ skill_state' =
            MasteryStep(Store(attempts, problem_state, skill_state),
                        logic_log(req[r].log, req[r].parent_id), req[r].difficulty,
                        req[r].skill_ids).skill_state
    /\ req' = [req EXCEPT ![r].pc = "return"]
    /\ UNCHANGED <<attempts, problem_state, session, db>>

\* the command returns and the guard is dropped
Return(r) ==
    /\ req[r].pc = "return"
    /\ db' = 0
    /\ req' = [req EXCEPT ![r].pc = "done"]
    /\ UNCHANGED <<store, session>>

NextMutex ==
    \E r \in Slots :
        \/ Invoke(r)
        \/ Lock(r)
        \/ Select(r)
        \/ LogAttempt(r)
        \/ CountAttempts(r)
        \/ UpdateRepetition(r)
        \/ UpdateMastery(r)
        \/ Return(r)

SpecMutex == Init /\ [][NextMutex]_vars

\* ------------------------------------------------------------------------
\* main.rs: submit_attempt, the older revision of the submit logic
\* ------------------------------------------------------------------------
\* SELECT difficulty FROM problems WHERE id = ?, unwrap_or("Medium")
main_diff_str(problem_id) ==
    IF \E p \in problems : p.id = problem_id
    THEN (CHOOSE p \in problems : p.id = problem_id).difficulty
    ELSE "Medium"

\* expected_mins with every arm but "Easy" at 25
main_expected_mins_no_hard(diff_str) ==
    IF diff_str = "Easy" THEN 10 ELSE 25

\* match diff_str { "Easy" => 10.0, "Medium" => 25.0, _ => 45.0 }
main_expected_mins(diff_str) ==
    IF diff_str = "Easy" THEN 10
    ELSE IF diff_str = "Medium" THEN 25
    ELSE 45

\* steps 1 to 4 of submit_attempt on the store S: the INSERT INTO attempts
\* and the INSERT OR REPLACE INTO problem_state, both keyed by log.problem_id
\* (step 5, the mastery update, writes skill_state only)
main_submit_attempt(S, log, now) ==
    LET logged == Append(S.attempts,
                     [problem_id |-> log.problem_id, time_minutes |-> log.time_minutes,
                      solved |-> log.solved, read_solution |-> log.read_solution,
                      timestamp |-> now])
        attempt_count ==
            Cardinality({i \in 1..Len(logged) : logged[i].problem_id = log.problem_id})
        is_new_problem == attempt_count <= 1
        has_row == \E r \in S.problem_state : r.problem_id = log.problem_id
        row == CHOOSE r \in S.problem_state : r.problem_id = log.problem_id
        ease == IF has_row THEN row.ease_factor ELSE 250
        prev_interval == IF has_row THEN row.interval_days ELSE <<0, 1>>
        ratio == <<log.time_minutes, main_expected_mins(main_diff_str(log.problem_id))>>
        failed == ~log.solved \/ log.read_solution
        \* <<ease, interval>> after the branch
        branch ==
            IF failed
            THEN <<IF ease - 20 < 130 THEN 130 ELSE ease - 20, <<INTERVAL_MIN, 1>>>>
            ELSE IF is_new_problem
            THEN IF RatLT(<<3, 2>>, ratio)
                 THEN <<ease - 5, <<2, 1>>>>
                 ELSE <<ease + 15, <<4, 1>>>>
            ELSE IF RatLT(<<2, 1>>, ratio)
            THEN <<ease - 15, RatMul(prev_interval, 7, 10)>>
            ELSE IF RatLT(ratio, <<3, 5>>)
            THEN <<ease + 15, RatMul(prev_interval, (ease + 15) * 12, 1000)>>
            ELSE <<ease, RatMul(prev_interval, ease, 100)>>
        interval == RatClamp(branch[2], INTERVAL_MIN, INTERVAL_MAX)
    IN  [S EXCEPT
            !.attempts = logged,
            !.problem_state =
                {r \in S.problem_state : r.problem_id # log.problem_id} \cup
                {[problem_id |-> log.problem_id,
                  ease_factor |-> Clamp(branch[1], 130, 500),
                  interval_days |-> interval,
                  next_review_ts |-> now + IntervalSeconds(interval)]}]

\* ------------------------------------------------------------------------
\* Properties
\* ------------------------------------------------------------------------
Tags(pid) == {ps[2] : ps \in {x \in problem_skills : x[1] = pid}}
ParentOf(pid) ==
    IF pid \in AlternativeIds
    THEN (CHOOSE a \in alternatives : a.id = pid).parent_id
    ELSE pid
Submitted == sub # NoSub
Recommended == rec # NoRec
\* the row the last submit saved
SavedRow == StateRow(sub.parent_id)
SubFail == ~sub.solved \/ sub.read_solution
SubExpected ==
    IF sub.difficulty = "Easy" THEN 10 ELSE IF sub.difficulty = "Medium" THEN 25 ELSE 45

\* C1: every persisted ProblemRepetitionState has its ease factor in
\* [1.3, 5.0] and its interval in [1.0, 180.0] days, after any sequence of
\* submits.
C1_RepetitionStateInRange ==
    \A r \in problem_state :
        /\ 130 <= r.ease_factor /\ r.ease_factor <= 500
        /\ r.interval_days[2] > 0
        /\ r.interval_days[2] <= r.interval_days[1]
        /\ r.interval_days[1] <= 180 * r.interval_days[2]

\* a review that took too long on a one-day interval: 1.0 x 0.7 is below
\* the minimum and the saved interval is 1.0
C1_Witness ==
    /\ Submitted /\ ~SubFail /\ sub.prior_attempts > 1
    /\ sub.time_minutes > 2 * SubExpected
    /\ sub.old_interval = <<1, 1>>
    /\ SavedRow.interval_days = <<1, 1>>

SomeDue == \E r \in problem_state : r.next_review_ts <= clock
\* catalog problems the Discovery tier may pick from
DiscoveryCandidates ==
    {p \in ProblemIds :
        /\ <<1, p>> \in track_problems
        /\ Tags(p) \cap get_unlocked_skills # {}
        /\ p \notin StateIds
        /\ ParentOf(p) \notin StateIds
        /\ ~\E a \in alternatives : a.parent_id = p /\ a.id \in AttemptIds}

\* C3: the tiers are tried in strict priority: with a due review the
\* response is a due review (or its variation); a Discovery is returned only
\* when no review is due; a Cram only when no review is due and no
\* Discovery candidate qualifies.
C3_TierPriority ==
    Recommended =>
        /\ SomeDue => rec.tier \in {"review", "variation"}
        /\ rec.tier = "discovery" => ~SomeDue
        /\ rec.tier = "cram" => (~SomeDue /\ DiscoveryCandidates = {})

\* a due review is served although a Discovery candidate qualifies
C3_Witness ==
    /\ rec.tier \in {"review", "variation"}
    /\ SomeDue
    /\ DiscoveryCandidates # {}

\* C4: no ProblemRepetitionState is keyed by an Alternative's id: a submit
\* of an Alternative creates or updates the state of its parent id and of no
\* other id.
C4_AlternativeRollsUp ==
    [][attempts' # attempts =>
        LET pid == attempts'[Len(attempts')].problem_id
            par == ParentOf(pid)
        IN  /\ par \in {r.problem_id : r \in problem_state'}
            /\ {r \in problem_state' : r.problem_id # par}
                 = {r \in problem_state : r.problem_id # par}
            /\ {r.problem_id : r \in problem_state'} \cap AlternativeIds = {}]_vars

\* an Alternative was submitted and the state is under its parent's id
C4_Witness ==
    /\ Submitted
    /\ sub.problem_id \in AlternativeIds
    /\ ParentOf(sub.problem_id) \in StateIds
    /\ sub.problem_id \notin StateIds

\* C5 as stated: every problem the Discovery tier returns has ALL of its
\* tagged skills in the unlocked set.
C5_AllTagsUnlocked ==
    rec.tier = "discovery" => Tags(rec.id) \subseteq get_unlocked_skills

\* C5 as amended: every problem the Discovery tier returns is in the active
\* track and has AT LEAST ONE of its tagged skills in the unlocked set; a
\* problem all of whose tagged skills are locked is never returned as a
\* Discovery.
C5_SomeTagUnlocked ==
    rec.tier = "discovery" =>
        /\ <<1, rec.id>> \in track_problems
        /\ \E s \in Tags(rec.id) : s \in get_unlocked_skills

\* a Discovery with one tagged skill unlocked and another locked
C5_Witness ==
    /\ rec.tier = "discovery"
    /\ \E s \in Tags(rec.id) : s \in get_unlocked_skills
    /\ \E s \in Tags(rec.id) : s \notin get_unlocked_skills

\* C6: get_next_problem never returns a Discovery or Cram candidate none of
\* whose tagged skills is in the currently unlocked set.
C6_NeverWhollyLocked ==
    rec.tier \in {"discovery", "cram"} =>
        Tags(rec.id) \cap get_unlocked_skills # {}

\* a Cram is served while the track holds a problem whose tags are all locked
C6_Witness ==
    /\ rec.tier = "cram"
    /\ \E p \in ProblemIds :
        /\ <<1, p>> \in track_problems
        /\ Tags(p) # {}
        /\ Tags(p) \cap get_unlocked_skills = {}

\* C7: the Discovery tier never returns (a) a problem that has a
\* ProblemRepetitionState, (b) an Alternative of a problem that has one,
\* (c) the parent of an Alternative with a logged Attempt; a problem once
\* submitted is never offered as a Discovery again.
C7_DiscoveryIsUnseen ==
    rec.tier = "discovery" =>
        /\ rec.id \notin StateIds
        /\ ~(rec.id \in AlternativeIds /\ ParentOf(rec.id) \in StateIds)
        /\ ~\E a \in alternatives : a.parent_id = rec.id /\ a.id \in AttemptIds
        /\ rec.id \notin AttemptIds

\* a Discovery that skipped an easier, unlocked, already submitted problem
C7_Witness ==
    /\ rec.tier = "discovery"
    /\ \E p \in AttemptIds \cap StateIds :
        /\ <<1, p>> \in track_problems
        /\ Tags(p) \cap get_unlocked_skills # {}
        /\ \E x \in problems, y \in problems :
            /\ x.id = p /\ y.id = rec.id
            /\ DifficultyRank(x.difficulty) < DifficultyRank(y.difficulty)

\* ease factor the last submit started from (2.5 when no state was recorded)
PriorEase == IF sub.had_state THEN sub.old_ease ELSE 250

\* C8: a fail (solved = false or read_solution = true), new or review,
\* whatever the prior state, persists interval exactly 1.0 day and ease
\* max(prior ease - 0.20, 1.3).
C8_FailResets ==
    (Submitted /\ SubFail) =>
        /\ SavedRow.interval_days = <<1, 1>>
        /\ SavedRow.ease_factor = (IF PriorEase - 20 > 130 THEN PriorEase - 20 ELSE 130)

\* a failed review from interval 180 and ease 1.4: the floor 1.3 applies
C8_Witness ==
    /\ Submitted /\ SubFail
    /\ sub.prior_attempts > 1
    /\ sub.had_state /\ sub.old_interval = <<180, 1>> /\ sub.old_ease = 140
    /\ SavedRow.ease_factor = 130
    /\ SavedRow.interval_days = <<1, 1>>

\* C9: a non-fail attempt classified as new sets interval 2.0 and ease
\* clamp(ease - 0.05) when minutes / expected > 1.5, otherwise interval 4.0
\* and ease clamp(ease + 0.15); ratio exactly 1.5 is clean; a first Easy
\* attempt of 5 minutes from no prior state gives ease 2.65, interval 4.0.
C9_NewAttempt ==
    (Submitted /\ ~SubFail /\ sub.prior_attempts <= 1) =>
        /\ IF 2 * sub.time_minutes > 3 * SubExpected
           THEN /\ SavedRow.interval_days = <<2, 1>>
                /\ SavedRow.ease_factor = Clamp(PriorEase - 5, 130, 500)
           ELSE /\ SavedRow.interval_days = <<4, 1>>
                /\ SavedRow.ease_factor = Clamp(PriorEase + 15, 130, 500)
        /\ (sub.difficulty = "Easy" /\ sub.time_minutes = 5 /\ ~sub.had_state) =>
                (SavedRow.ease_factor = 265 /\ SavedRow.interval_days = <<4, 1>>)

\* an Easy attempt of 15 minutes (ratio exactly 1.5) classified as new
C9_Witness ==
    /\ Submitted /\ ~SubFail /\ sub.prior_attempts <= 1
    /\ sub.difficulty = "Easy" /\ sub.time_minutes = 15
    /\ SavedRow.interval_days = <<4, 1>>
    /\ SavedRow.ease_factor = PriorEase + 15

\* C10: a non-fail review with ratio > 2.0 lowers ease by 0.15 and multiplies
\* the interval by 0.7; with 0.6 <= ratio <= 2.0 ease is unchanged and the
\* interval is multiplied by the ease; both boundaries take the normal
\* branch; the results are then clamped.
C10_Review ==
    (Submitted /\ ~SubFail /\ sub.prior_attempts > 1) =>
        IF sub.time_minutes > 2 * SubExpected
        THEN /\ SavedRow.ease_factor = Clamp(sub.old_ease - 15, 130, 500)
             /\ SavedRow.interval_days = RatClamp(RatMul(sub.old_interval, 7, 10), 1, 180)
        ELSE IF 5 * sub.time_minutes >= 3 * SubExpected
        THEN /\ SavedRow.ease_factor = Clamp(sub.old_ease, 130, 500)
             /\ SavedRow.interval_days =
                    RatClamp(RatMul(sub.old_interval, sub.old_ease, 100), 1, 180)
        ELSE TRUE

\* a Hard review of 90 minutes (ratio exactly 2.0) from interval 4.0 and
\* ease 2.5: the interval becomes 10.0 days and the ease stays
C10_Witness ==
    /\ Submitted /\ ~SubFail /\ sub.prior_attempts > 1
    /\ sub.difficulty = "Hard" /\ sub.time_minutes = 90
    /\ sub.old_interval = <<4, 1>> /\ sub.old_ease = 250
    /\ SavedRow.interval_days = <<10, 1>>
    /\ SavedRow.ease_factor = 250

\* the last submit was a non-fail review with ratio < 0.6
SubSpeedReview ==
    /\ Submitted /\ ~SubFail /\ sub.prior_attempts > 1
    /\ 5 * sub.time_minutes < 3 * SubExpected

\* C11 as stated: a non-fail review with ratio < 0.6 raises the ease by 0.15
\* and persists interval clamp(old interval x new ease x 1.2, 1.0, 180.0),
\* where new ease is the ease this update persists (after the clamp to
\* [1.3, 5.0]).
C11_SpeedUsesPersistedEase ==
    SubSpeedReview =>
        /\ SavedRow.ease_factor = Clamp(sub.old_ease + 15, 130, 500)
        /\ SavedRow.interval_days =
                RatClamp(RatMul(sub.old_interval, SavedRow.ease_factor * 12, 1000), 1, 180)

\* C11 as amended: a non-fail review with ratio < 0.6 persists ease
\* clamp(old ease + 0.15, 1.3, 5.0) and interval
\* clamp(old interval x (old ease + 0.15) x 1.2, 1.0, 180.0): the multiplier
\* is the incremented ease BEFORE it is clamped.
C11_SpeedUsesIncrementedEase ==
    SubSpeedReview =>
        /\ SavedRow.ease_factor = Clamp(sub.old_ease + 15, 130, 500)
        /\ SavedRow.interval_days =
                RatClamp(RatMul(sub.old_interval, (sub.old_ease + 15) * 12, 1000), 1, 180)

\* a fast review from ease 5.0 and interval 4.0: the persisted ease stays
\* 5.0 and the interval becomes 4.0 x 5.15 x 1.2 = 24.72 days, not 24.0
C11_Witness ==
    /\ SubSpeedReview
    /\ sub.old_ease = 500 /\ sub.old_interval = <<4, 1>>
    /\ SavedRow.ease_factor = 500
    /\ SavedRow.interval_days = <<618, 25>>

\* Attempt records carrying id pid among the first n records of the log
AttemptsOn(pid, n) ==
    Cardinality({i \in 1..n : attempts[i].problem_id = pid})

\* C12 as stated: the attempt count process_attempt passes to the Repetition
\* Updater equals the number of Attempt records for the canonical id that
\* existed before this submission's own record was appended.
C12_CountExcludesThisAttempt ==
    Submitted => sub.prior_attempts = AttemptsOn(sub.parent_id, Len(attempts) - 1)

\* C12 as amended: the count passed equals the number of Attempt records
\* carrying the canonical id once this submission's own record is appended:
\* the just-logged attempt is counted when the submitted id is the canonical
\* id, and is not counted when the submitted id is an Alternative (its
\* record carries the Alternative's id).
C12_CountIncludesThisAttempt ==
    Submitted =>
        /\ sub.prior_attempts = AttemptsOn(sub.parent_id, Len(attempts))
        /\ sub.problem_id = sub.parent_id =>
                sub.prior_attempts = AttemptsOn(sub.parent_id, Len(attempts) - 1) + 1
        /\ sub.problem_id # sub.parent_id =>
                sub.prior_attempts = AttemptsOn(sub.parent_id, Len(attempts) - 1)

\* the second submit of a canonical problem: one record existed before it
\* and the count passed is 2
C12_Witness ==
    /\ Submitted
    /\ sub.problem_id = sub.parent_id
    /\ AttemptsOn(sub.parent_id, Len(attempts) - 1) = 1
    /\ sub.prior_attempts = 2

\* C13: a non-fail submit on an Alternative whose parent already has a
\* ProblemRepetitionState is a review of the parent: the parent's interval is
\* scaled by the review rules (x 0.7, x ease, or x incremented ease x 1.2)
\* and is not reset to the new-problem values 2.0 / 4.0, however many earlier
\* attempts the parent or its Alternatives have.
C13_AlternativeIsReview ==
    (Submitted /\ ~SubFail /\ sub.problem_id \in AlternativeIds /\ sub.had_state) =>
        SavedRow.interval_days =
            RatClamp(
                IF sub.time_minutes > 2 * SubExpected
                THEN RatMul(sub.old_interval, 7, 10)
                ELSE IF 5 * sub.time_minutes < 3 * SubExpected
                THEN RatMul(sub.old_interval, (sub.old_ease + 15) * 12, 1000)
                ELSE RatMul(sub.old_interval, sub.old_ease, 100),
                1, 180)

\* difficulty multiplier of the last submit, in tenths
SubDifficultyMultiplier ==
    IF sub.difficulty = "Easy" THEN 8 ELSE IF sub.difficulty = "Medium" THEN 12 ELSE 15
\* scaffolding multiplier of the last submit, in tenths
SubScaffolding == IF sub.revealed_skills THEN 5 ELSE 10
\* mastery of skill s after adding 0.15 x difficulty x perf x scaffolding
\* (perf in tenths) to what it was before the last submit
MasteryAfter(s, perf) ==
    Clamp(sub.old_skill_state[s].mastery
            + 15 * SubDifficultyMultiplier * perf * SubScaffolding, 0, 100000)

\* C14: in the Mastery Updater every non-fail review (the canonical problem
\* has more than one logged attempt) uses performance multiplier 0.3, for
\* every time ratio including ratio > 1.5; the 1.2 grit multiplier applies
\* only to new attempts.
C14_ReviewMultiplier ==
    (Submitted /\ ~SubFail /\ AttemptsOn(sub.parent_id, Len(attempts)) > 1) =>
        \A s \in sub.skill_ids : skill_state[s].mastery = MasteryAfter(s, 3)

\* the last submit was the first logged attempt on a canonical problem, and
\* not a fail
SubFirstOnCanonical ==
    /\ Submitted /\ ~SubFail
    /\ sub.problem_id \notin AlternativeIds
    /\ AttemptsOn(sub.problem_id, Len(attempts) - 1) = 0

C16_MasteryBoundedAttemptsGrow ==
    [][\A s \in skills :
        /\ 0 <= skill_state[s].mastery /\ skill_state[s].mastery <= 100000
        /\ 0 <= skill_state'[s].mastery /\ skill_state'[s].mastery <= 100000
        /\ skill_state'[s].attempts >= skill_state[s].attempts]_vars

\* a solve on a skill at mastery 0.95: the sum is above 1 and the stored
\* mastery is 1.0, with one more attempt counted
C16_Witness ==
    /\ Submitted /\ ~SubFail
    /\ \E s \in sub.skill_ids :
        /\ sub.old_skill_state[s].mastery = 95000
        /\ skill_state[s].mastery = 100000
        /\ skill_state[s].attempts = sub.old_skill_state[s].attempts + 1

\* the skill tags a submit resolves: the submitted problem's own tags, or its
\* parent's when it has none
ResolvedTags ==
    IF Tags(sub.problem_id) # {} THEN Tags(sub.problem_id) ELSE Tags(sub.parent_id)
\* the deltas 0.15 x difficulty x performance x scaffolding can take
Deltas ==
    {15 * d * p * s : d \in {8, 12, 15}, p \in {0, 3, 10, 12}, s \in {5, 10}}

\* C17: a submit updates every resolved skill tag with the same delta: each
\* gets mastery = clamp(mastery + delta, 0, 1) and attempts + 1 exactly (on a
\* fail too, where delta = 0 and mastery is unchanged); the SkillState of
\* every other skill is left unchanged.
C17_FanOutAndFrame ==
    Submitted =>
        /\ \E delta \in Deltas :
            /\ SubFail => delta = 0
            /\ \A s \in ResolvedTags :
                /\ skill_state[s].mastery =
                        Clamp(sub.old_skill_state[s].mastery + delta, 0, 100000)
                /\ skill_state[s].attempts = sub.old_skill_state[s].attempts + 1
        /\ \A s \in skills \ ResolvedTags : skill_state[s] = sub.old_skill_state[s]

\* a solve of the problem tagged {1, 2}: both skills rise by the same
\* amount and skill 3 keeps its state
C17_Witness ==
    /\ Submitted /\ ~SubFail
    /\ ResolvedTags = {1, 2}
    /\ skill_state[1].mastery > sub.old_skill_state[1].mastery
    /\ skill_state[1].mastery - sub.old_skill_state[1].mastery
         = skill_state[2].mastery - sub.old_skill_state[2].mastery
    /\ skill_state[3] = sub.old_skill_state[3]

\* the skills whose prerequisites all meet the unlock condition in table ss
UnlockedIn(ss) ==
    {s \in skills : \A sp \in skill_prereqs : sp[1] = s =>
        /\ ss[sp[2]].mastery >= 70000
        /\ (ss[sp[2]].mastery >= 90000 \/ ss[sp[2]].attempts >= 2)}

\* C18: once a skill is in the unlocked set it is in the unlocked set of
\* every later state: no step lowers a skill's mastery or attempts, so no
\* step removes a skill from the unlocked set.
C18_UnlockMonotone ==
    [][/\ UnlockedIn(skill_state) \subseteq UnlockedIn(skill_state')
       /\ \A s \in skills :
            /\ skill_state'[s].mastery >= skill_state[s].mastery
            /\ skill_state'[s].attempts >= skill_state[s].attempts]_vars

\* skill 2 was unlocked by its prerequisite at exactly 0.7 / 2 attempts; a
\* failed attempt on that prerequisite left the mastery at 0.7 and skill 2
\* unlocked
C18_Witness ==
    /\ Submitted /\ SubFail
    /\ 1 \in sub.skill_ids
    /\ sub.old_skill_state[1] = [mastery |-> 70000, attempts |-> 2]
    /\ 2 \in UnlockedIn(sub.old_skill_state)
    /\ skill_state[1] = [mastery |-> 70000, attempts |-> 3]
    /\ 2 \in UnlockedIn(skill_state)

\* the canonical problem a Due Review response stands for
ReviewedParent == IF rec.tier = "variation" THEN ParentOf(rec.id) ELSE rec.id

MostOverdue ==
    {r.problem_id : r \in {x \in problem_state :
        /\ x.next_review_ts <= clock
        /\ \A y \in problem_state : x.next_review_ts <= y.next_review_ts}}
\* the Alternatives of canonical problem pid
AlternativesOf(pid) == {a.id : a \in {x \in alternatives : x.parent_id = pid}}

\* C20: if the selected due problem has one or more Alternatives,
\* get_next_problem returns one of that problem's own Alternatives and never
\* the canonical problem; if it has none, it returns the canonical problem.
C20_VariationOrCanonical ==
    (Recommended /\ MostOverdue # {}) =>
        \E parent \in MostOverdue :
            IF AlternativesOf(parent) # {}
            THEN /\ rec.tier = "variation"
                 /\ rec.id \in AlternativesOf(parent)
                 /\ rec.id # parent
            ELSE /\ rec.tier = "review"
                 /\ rec.id = parent

\* problem 2, which has Alternatives 4, 5 and 6, is due and Alternative 5
\* is returned in its place
C20_Witness ==
    /\ rec.tier = "variation"
    /\ MostOverdue = {2}
    /\ AlternativesOf(2) = {4, 5, 6}
    /\ rec.id = 5

\* two other outcomes of the Due Review tier: another Alternative of
\* problem 2, and problem 1 itself, which has no Alternative
C20_OtherAlternative == rec.tier = "variation" /\ MostOverdue = {2} /\ rec.id = 4
C20_Canonical == rec.tier = "review" /\ MostOverdue = {1} /\ rec.id = 1

\* rank of a catalog problem's difficulty: Easy < Medium < Hard < anything else
RankOf(pid) ==
    LET d == (CHOOSE p \in problems : p.id = pid).difficulty
    IN  IF d = "Easy" THEN 1 ELSE IF d = "Medium" THEN 2 ELSE IF d = "Hard" THEN 3 ELSE 4

\* C21: the Discovery tier returns a candidate of minimal difficulty rank
\* among all eligible candidates: never a Medium or Hard problem while an
\* eligible Easy one exists, nor a Hard one while an eligible Medium exists.
C21_EasiestFirst ==
    rec.tier = "discovery" =>
        /\ rec.id \in DiscoveryCandidates
        /\ \A p \in DiscoveryCandidates : RankOf(rec.id) <= RankOf(p)

\* an Easy problem is returned while a Medium and a Hard one are eligible
C21_Witness ==
    /\ rec.tier = "discovery"
    /\ RankOf(rec.id) = 1
    /\ \E p \in DiscoveryCandidates : RankOf(p) = 2
    /\ \E p \in DiscoveryCandidates : RankOf(p) = 3

\* the (active-track problem, unlocked tagged skill) pairs
CramPairs ==
    {ps \in problem_skills :
        /\ <<1, ps[1]>> \in track_problems
        /\ ps[2] \in UnlockedIn(skill_state)}

\* C22: the Cram tier applies no seen/attempted exclusions and returns an
\* active-track problem tagged with an unlocked skill whose mastery is
\* minimal over all (active-track problem, unlocked tagged skill) pairs.
C22_LowestMasteryFirst ==
    rec.tier = "cram" =>
        \E ps \in CramPairs :
            /\ ps[1] = rec.id
            /\ \A other \in CramPairs :
                skill_state[ps[2]].mastery <= skill_state[other[2]].mastery

\* a Cram returns an already tracked problem through its weaker skill while
\* a pair with a stronger unlocked skill exists
C22_Witness ==
    /\ rec.tier = "cram"
    /\ rec.id \in StateIds
    /\ \E ps \in CramPairs, other \in CramPairs :
        /\ ps[1] = rec.id
        /\ skill_state[ps[2]].mastery < skill_state[other[2]].mastery

\* C23: with no storage failure, get_next_problem returns an absent result
\* exactly when no review is due and no active-track problem is tagged with
\* an unlocked skill; in every other state it returns a recommendation.
C23_AbsentExactly ==
    Recommended =>
        IF ~SomeDue /\ CramPairs = {}
        THEN rec.tier = "absent"
        ELSE rec.tier \in {"review", "variation", "discovery", "cram"}

\* the track's only problem is tagged with a locked skill and nothing is
\* due: the response is absent
C23_Witness ==
    /\ rec.tier = "absent"
    /\ track_problems # {}
    /\ ~SomeDue
    /\ \A tp \in track_problems : Tags(tp[2]) # {} /\ Tags(tp[2]) \cap UnlockedIn(skill_state) = {}


\* C24: in get_next_problem a failure of any storage operation (the
\* due-review query, the alternative lookup, the unlocked-skill query, the
\* discovery query or the cram query) aborts the request and is returned as
\* an error; a failed tier query is never treated as "no candidate".
C24_FailureIsReturned ==
    rec.failed # NoFault => rec.tier = "error"

\* C25: in process_attempt a storage failure at any step returns an error
\* and no later step runs: a failed append leaves all three tables alone, a
\* failed upsert leaves the skill states alone and the attempt logged.
C25_FailureAborts ==
    [][(quota' # quota /\ sub'.failed # NoFault) =>
          /\ sub'.result = "error"
          /\ sub'.failed = "log_attempt" => UNCHANGED store
          /\ sub'.failed = "save_problem_repetition_state" =>
                /\ skill_state' = skill_state
                /\ problem_state' = problem_state
                /\ Len(attempts') = Len(attempts) + 1]_vars


\* the AttemptLog of the last submit
SubLog == [problem_id |-> sub.problem_id, time_minutes |-> sub.time_minutes,
           solved |-> sub.solved, read_solution |-> sub.read_solution,
           revealed_skills |-> sub.revealed_skills]
\* the newest Attempt record
LastAttempt == attempts[Len(attempts)]

\* C26: when the submitted problem has no skill tags the Mastery Updater
\* uses its canonical parent's tags; when those are empty too the submit
\* still succeeds, no SkillState is changed, the Attempt is logged and the
\* repetition state of the canonical id is updated as usual.
C26_UntaggedFallsBack ==
    (Submitted /\ sub.failed = NoFault /\ Tags(sub.problem_id) = {}) =>
        /\ sub.skill_ids = Tags(sub.parent_id)
        /\ Tags(sub.parent_id) = {} =>
            /\ sub.result = "ok"
            /\ skill_state = sub.old_skill_state
            /\ LastAttempt.problem_id = sub.problem_id
            /\ sub.parent_id \in StateIds
            /\ SavedRow =
                update_repetition_logic(
                    [problem_id |-> sub.parent_id, ease_factor |-> sub.old_ease,
                     interval_days |-> sub.old_interval, next_review_ts |-> 0],
                    logic_log(SubLog, sub.parent_id), sub.difficulty,
                    sub.prior_attempts, LastAttempt.timestamp)

\* problem 3 has no tags and no parent: its first clean solve is logged and
\* scheduled four days ahead, and no skill state moves
C26_Witness ==
    /\ Submitted /\ sub.failed = NoFault /\ sub.result = "ok"
    /\ sub.problem_id = 3 /\ sub.parent_id = 3 /\ sub.skill_ids = {}
    /\ ~SubFail
    /\ skill_state = sub.old_skill_state
    /\ LastAttempt.problem_id = 3
    /\ SavedRow.interval_days = <<4, 1>>
    /\ SavedRow.ease_factor = 265

\* problem 6 has a problems row but no tags: the tags of its parent 2 are
\* credited with its own difficulty
C26_ParentTags ==
    /\ Submitted /\ sub.failed = NoFault
    /\ sub.problem_id = 6 /\ sub.parent_id = 2
    /\ sub.difficulty = "Easy"
    /\ sub.skill_ids = {1, 2}
    /\ skill_state[2].attempts = sub.old_skill_state[2].attempts + 1

\* C27: each successful submit appends exactly one Attempt record, keyed by
\* the submitted id (the Alternative's id, not its parent's) with the
\* submitted minutes and flags; no operation modifies or removes a record
\* written earlier.
C27_OneAppendPerSubmit ==
    [][/\ (quota' # quota /\ sub'.result = "ok") =>
            attempts' = Append(attempts,
                [problem_id |-> sub'.problem_id, time_minutes |-> sub'.time_minutes,
                 solved |-> sub'.solved, read_solution |-> sub'.read_solution,
                 timestamp |-> clock])
       /\ quota' = quota => attempts' = attempts
       /\ Len(attempts') >= Len(attempts)
       /\ SubSeq(attempts', 1, Len(attempts)) = attempts]_vars

\* Alternative 4 submitted after its parent 2: the second record carries
\* id 4 and the first still carries id 2
C27_Witness ==
    /\ Submitted /\ sub.result = "ok"
    /\ sub.problem_id = 4 /\ sub.parent_id = 2
    /\ Len(attempts) = 2
    /\ attempts[1].problem_id = 2
    /\ attempts[2].problem_id = 4
    /\ attempts[2].time_minutes = sub.time_minutes

\* a request between its Lock and the end of its Return
InBody(r) == req[r].pc \in {"select", "log", "count", "repetition", "mastery", "return"}
\* the store after request r has run alone on S
ApplyRequest(S, r) ==
    IF req[r].kind = "submit_attempt"
    THEN process_result(S, req[r].log, clock, NoFault).store
    ELSE S
SeedStore == Store(<<>>, {}, [s \in skills |-> [mastery |-> 0, attempts |-> 0]])
Serial(r1, r2) == ApplyRequest(ApplyRequest(SeedStore, r1), r2)

\* C28: both commands take the mutex before their first storage operation
\* and hold it until they return: the storage operations of two requests
\* in flight never interleave, and the final store is that of running the
\* two requests one after the other in some order.
C28_Serialized ==
    /\ \A r1 \in Slots, r2 \in Slots : (InBody(r1) /\ InBody(r2)) => r1 = r2
    /\ \A r \in Slots : InBody(r) => db = r
    /\ (\A r \in Slots : req[r].pc = "done") =>
            Store(attempts, problem_state, skill_state) \in {Serial(1, 2), Serial(2, 1)}

\* two submits on the same canonical problem whose order matters: the
\* store is that of request 1 followed by request 2
C28_Witness ==
    /\ \A r \in Slots : req[r].pc = "done" /\ req[r].kind = "submit_attempt"
    /\ req[1].parent_id = req[2].parent_id
    /\ Serial(1, 2) # Serial(2, 1)
    /\ Store(attempts, problem_state, skill_state) = Serial(1, 2)

\* C29: within one submit the Repetition Updater step and the Mastery
\* Updater step commute: once the Attempt is logged, the mastery update
\* followed by the repetition update leaves the same problem_state and
\* skill_state as the implemented order.
C29_UpdatersCommute ==
    [][(quota' # quota /\ sub'.result = "ok") =>
          LET log == [problem_id |-> sub'.problem_id, time_minutes |-> sub'.time_minutes,
                      solved |-> sub'.solved, read_solution |-> sub'.read_solution,
                      revealed_skills |-> sub'.revealed_skills]
              llog == logic_log(log, sub'.parent_id)
              S3 == LogStep(Store(attempts, problem_state, skill_state), log, clock)
              mastery_first ==
                  RepetitionStep(MasteryStep(S3, llog, sub'.difficulty, sub'.skill_ids),
                                 llog, sub'.difficulty, sub'.prior_attempts, clock)
          IN  mastery_first = Store(attempts', problem_state', skill_state')]_vars

\* a first clean solve that wrote both a new repetition state and a new
\* mastery
C29_Witness ==
    /\ Submitted /\ sub.result = "ok"
    /\ ~sub.had_state /\ sub.parent_id \in StateIds
    /\ ~SubFail
    /\ sub.skill_ids # {}
    /\ \A sid \in sub.skill_ids : skill_state[sid].mastery > sub.old_skill_state[sid].mastery

\* C30: a recommendation request is read-only: it leaves every SkillState,
\* ProblemRepetitionState and Attempt record unchanged, and the unlocked set
\* it uses is computed from the SkillStates of the moment, so a submit that
\* changes mastery between two requests shows in the second.
C30_ReadOnlyRecomputed ==
    [][rec' # NoRec =>
          /\ UNCHANGED store
          /\ rec'.tier \in {"discovery", "cram", "absent"} =>
                rec'.unlocked = UnlockedIn(skill_state)]_vars

\* the submit brought a prerequisite over the threshold and the request
\* after it works with a larger unlocked set than before the submit
C30_Witness ==
    /\ Submitted /\ Recommended
    /\ rec.tier \in {"discovery", "cram", "absent"}
    /\ rec.unlocked # UnlockedIn(sub.old_skill_state)
    /\ UnlockedIn(sub.old_skill_state) \subseteq rec.unlocked


\* ids that hold a row in a problem_state table
IdsOf(table) == {r.problem_id : r \in table}

\* C31: a submit writes the ProblemRepetitionState of exactly one id, the
\* canonical id of the submitted problem, and leaves the state of every
\* other problem unchanged; the state exists after the first successful
\* submit for its canonical id and no later operation deletes it.
C31_OneRowWritten ==
    [][/\ (quota' # quota /\ sub'.result = "ok") =>
            /\ sub'.parent_id = ParentOf(sub'.problem_id)
            /\ sub'.parent_id \in IdsOf(problem_state')
            /\ {r \in problem_state' : r.problem_id # sub'.parent_id}
                 = {r \in problem_state : r.problem_id # sub'.parent_id}
            /\ Cardinality({r \in problem_state' : r.problem_id = sub'.parent_id}) = 1
       /\ quota' = quota => problem_state' = problem_state
       /\ IdsOf(problem_state) \subseteq IdsOf(problem_state')]_vars

\* problem 1 held a state and Alternative 4 was submitted: the state of
\* its parent 2 is created and the row of problem 1 is still there
C31_Witness ==
    /\ Submitted /\ sub.result = "ok"
    /\ sub.problem_id = 4 /\ sub.parent_id = 2
    /\ ~sub.had_state
    /\ StateIds = {1, 2}
    /\ StateRow(1).ease_factor = EASE_FACTOR_MAX


\* every Attempt record so far carries a canonical id
CanonicalOnly ==
    \A i \in 1..Len(attempts) : attempts[i].problem_id \notin AlternativeIds

\* C32: with attempts submitted on canonical ids only and every submit
\* running to completion, the first submit for a problem is classified new
\* and every later one review, by the Repetition Updater (count <= 1) and by
\* the Mastery Updater (count > 1) alike: a later non-fail submit gets the
\* review multiplier 0.3, a first one 1.0 or 1.2.
C32_BothClassifyAlike ==
    (Submitted /\ sub.result = "ok" /\ sub.failed = NoFault /\ CanonicalOnly /\ ~SubFail) =>
        IF AttemptsOn(sub.parent_id, Len(attempts)) = 1
        THEN /\ sub.prior_attempts <= 1
             /\ \A s \in sub.skill_ids :
                    skill_state[s].mastery \in {MasteryAfter(s, 10), MasteryAfter(s, 12)}
        ELSE /\ sub.prior_attempts > 1
             /\ \A s \in sub.skill_ids : skill_state[s].mastery = MasteryAfter(s, 3)

\* C33: over any sequence of submit operations no skill's mastery ever
\* decreases: the delta a submit adds is >= 0, and 0 for a fail.
C33_MasteryNeverDecreases ==
    [][/\ \A s \in skills : skill_state'[s].mastery >= skill_state[s].mastery
       /\ (quota' # quota /\ (~sub'.solved \/ sub'.read_solution)) =>
            \A s \in skills : skill_state'[s].mastery = skill_state[s].mastery]_vars

\* a fail on a problem whose skill already had mastery: the mastery is
\* what it was and the attempt is counted
C33_Witness ==
    /\ Submitted /\ SubFail /\ sub.result = "ok"
    /\ \E s \in sub.skill_ids :
        /\ sub.old_skill_state[s].mastery > 0
        /\ skill_state[s].mastery = sub.old_skill_state[s].mastery
        /\ skill_state[s].attempts = sub.old_skill_state[s].attempts + 1

\* timestamps of the attempts that may have saved the row r: those on its
\* problem or on an Alternative of it, from which the row is due after its
\* interval
SavedAt(r) ==
    {attempts[i].timestamp : i \in {j \in 1..Len(attempts) :
        /\ ParentOf(attempts[j].problem_id) = r.problem_id
        /\ r.next_review_ts = attempts[j].timestamp + IntervalSeconds(r.interval_days)}}

\* C34: every repetition update at time now persists next_review_ts =
\* now + floor(interval_days x 86400), between now + 86400 and now +
\* 180 x 86400: a problem is not returned as a due review before one day
\* has passed since the submit that scheduled it, and it is due at most 180
\* days after it.
C34_DueAfterInterval ==
    /\ \A r \in problem_state :
        /\ SavedAt(r) # {}
        /\ \A t \in SavedAt(r) :
            /\ t + DAY_SECONDS <= r.next_review_ts
            /\ r.next_review_ts <= t + 180 * DAY_SECONDS
    /\ (rec.tier \in {"review", "variation"} /\ rec.failed = NoFault) =>
        \E t \in SavedAt(StateRow(ReviewedParent)) : t + DAY_SECONDS <= clock

\* problem 1 failed at time 0 is scheduled one day ahead and is returned
\* as a due review by the request made one day later
C34_Witness ==
    /\ Submitted /\ SubFail /\ sub.result = "ok" /\ sub.problem_id = 1
    /\ LastAttempt.timestamp = 0
    /\ SavedRow.next_review_ts = DAY_SECONDS
    /\ clock = DAY_SECONDS
    /\ rec.tier = "review" /\ rec.id = 1


\* C35: when every submit runs to completion, a submit that takes a review
\* branch of the Repetition Updater finds a ProblemRepetitionState for the
\* canonical id: the interval it multiplies is a persisted value >= 1.0,
\* never the 0.0 default of a problem without state.
C35_ReviewHasState ==
    (Submitted /\ ~SubFail /\ ~is_new(sub.prior_attempts)) =>
        /\ sub.had_state
        /\ sub.old_interval[1] >= sub.old_interval[2]
        /\ sub.old_interval # <<0, 1>>

\* the second clean solve of problem 1 multiplies the 4.0 days its first
\* solve saved
C35_Witness ==
    /\ Submitted /\ ~SubFail /\ sub.problem_id = 1
    /\ sub.prior_attempts = 2
    /\ sub.had_state
    /\ sub.old_interval = <<4, 1>>
    /\ SavedRow.interval_days # <<4, 1>>

\* every Attempt record so far is on a canonical problem of the catalog
CatalogCanonicalOnly ==
    \A i \in 1..Len(attempts) : attempts[i].problem_id \in ProblemIds \ AlternativeIds

====
